---- MODULE Spec2Model ----
(***************************************************************************)
(* The in-process telemetry aggregation engine of the SleepSafe backend:   *)
(* DetectionService (bounded event cache, severity classification,         *)
(* statistics), AnalyticsService (hourly summary, dashboard) and the HTTP  *)
(* handlers of main.py that drive them.                                    *)
(*                                                                         *)
(* Units.  ear_value is a float in the code; here it is an integer number  *)
(* of thousandths (0.25 is 250).  average_ear is in thousandths (round to  *)
(* 3 places), average_duration_ms in hundredths of a millisecond and       *)
(* drowsiness_rate / alert_rate in hundredths of a percent (round to 2     *)
(* places).  The clock counts whole hours.                                 *)
(***************************************************************************)
EXTENDS Integers, Sequences, FiniteSets, TLC

\* ------------------------------------------------------------- constants
max_cache_size == 1000
EarThreshold == 250
LowDuration == 2000
MediumDuration == 5000
OneHour == 1
CriticalRate == 5000
WarningRate == 2500

\* ---------------------------------------------------------------- bounds
MaxRecords == 3
MaxClock == 2
MaxBatch == 2
MaxLimit == 2
NThreads == 2
MaxRequests == 3

VARIABLES
    events_cache,   \* DetectionService.events_cache
    now,            \* the value datetime.utcnow() returns, in hours
    accepts_z,      \* whether this Python's fromisoformat parses a 'Z' suffix
    history,        \* ghost: the events recorded since the last clear_cache
    nrecords,       \* ghost: process_detection_event calls so far
    request,        \* the last request handled
    processed,      \* what the last process_detection_event call returned
    response,       \* the last response sent
    threads,        \* the requests in flight: each one's position and locals
    nrequests       \* ghost: requests the threads have taken so far

vars == <<events_cache, now, accepts_z, history, nrecords, request, processed, response,
          threads, nrequests>>

\* ------------------------------------------------------------ timestamps
\* A timestamp string is kept as its format and the instant it denotes:
\*   "none"   the field was omitted (None)
\*   "naive"  ISO-8601 without offset, what datetime.isoformat() of utcnow() gives
\*   "offset" ISO-8601 with a numeric UTC offset, "2025-12-27T12:00:00+00:00"
\*   "zulu"   ISO-8601 with a 'Z' suffix, "2025-12-27T12:00:00.000Z"
NoTimestamp == [fmt |-> "none", t |-> 0]

isoformat(t) == [fmt |-> "naive", t |-> t]

\* datetime.fromisoformat: a naive or an aware datetime, or ValueError.
fromisoformat(ts, z_ok) ==
    CASE ts.fmt = "naive"  -> [error |-> "", aware |-> FALSE, t |-> ts.t]
      [] ts.fmt = "offset" -> [error |-> "", aware |-> TRUE, t |-> ts.t]
      [] ts.fmt = "zulu"   -> IF z_ok
                              THEN [error |-> "", aware |-> TRUE, t |-> ts.t]
                              ELSE [error |-> "ValueError", aware |-> FALSE, t |-> 0]
      [] OTHER             -> [error |-> "TypeError", aware |-> FALSE, t |-> 0]

\* ------------------------------------------------------------ arithmetic
\* round(n / d, places) on the scaled integers: to nearest, ties to even.
round_div(n, d) ==
    LET q == n \div d
        r == n % d
    IN  IF 2 * r < d THEN q
        ELSE IF 2 * r > d THEN q + 1
        ELSE IF q % 2 = 0 THEN q ELSE q + 1

RECURSIVE SumRange(_, _, _)
SumRange(xs, lo, hi) ==
    IF lo > hi THEN 0
    ELSE IF lo = hi THEN xs[lo]
    ELSE LET mid == (lo + hi) \div 2
         IN  SumRange(xs, lo, mid) + SumRange(xs, mid + 1, hi)

\* sum(f(e) for e in events)
SumEar(events) == SumRange([i \in 1..Len(events) |-> events[i].ear_value], 1, Len(events))
SumDuration(events) == SumRange([i \in 1..Len(events) |-> events[i].duration_ms], 1, Len(events))
\* sum(1 for e in events if e["is_drowsy"])
CountDrowsy(events) == Cardinality({i \in 1..Len(events) : events[i].is_drowsy})

\* --------------------------------------------------------- DetectionService
\* Mutant: the first comparison taken inclusive (ear_value >= 0.25).
calculate_severity_inclusive(ear_value, duration_ms) ==
    IF ear_value >= EarThreshold THEN "none"
    ELSE IF duration_ms < LowDuration THEN "low"
    ELSE IF duration_ms < MediumDuration THEN "medium"
    ELSE "high"

calculate_severity(ear_value, duration_ms) ==
    IF ear_value > EarThreshold THEN "none"
    ELSE IF duration_ms < LowDuration THEN "low"
    ELSE IF duration_ms < MediumDuration THEN "medium"
    ELSE "high"

\* Mutant: the top label of SeverityLevel stored for the longest closures.
make_event_critical(ear_value, is_drowsy, duration_ms, timestamp, clock) ==
    [timestamp   |-> IF timestamp = NoTimestamp THEN isoformat(clock) ELSE timestamp,
     ear_value   |-> ear_value,
     is_drowsy   |-> is_drowsy,
     duration_ms |-> duration_ms,
     severity    |-> IF ear_value <= EarThreshold /\ duration_ms >= MediumDuration
                     THEN "critical"
                     ELSE calculate_severity(ear_value, duration_ms)]

\* The event dict process_detection_event builds.
make_event(ear_value, is_drowsy, duration_ms, timestamp, clock) ==
    [timestamp   |-> IF timestamp = NoTimestamp THEN isoformat(clock) ELSE timestamp,
     ear_value   |-> ear_value,
     is_drowsy   |-> is_drowsy,
     duration_ms |-> duration_ms,
     severity    |-> calculate_severity(ear_value, duration_ms)]

\* Mutant: pop() in place of pop(0), evicting the newest event.
cache_add_evict_newest(cache, event) ==
    LET appended == Append(cache, event)
    IN  IF Len(appended) > max_cache_size
        THEN SubSeq(appended, 1, Len(appended) - 1)
        ELSE appended

\* events_cache.append(event); if len(events_cache) > max_cache_size: pop(0)
cache_add(cache, event) ==
    LET appended == Append(cache, event)
    IN  IF Len(appended) > max_cache_size THEN Tail(appended) ELSE appended

\* process_detection_event run alone: the new cache and the returned event.
process_detection_event(cache, ear_value, is_drowsy, duration_ms, timestamp, clock) ==
    LET event == make_event(ear_value, is_drowsy, duration_ms, timestamp, clock)
    IN  [cache |-> cache_add(cache, event), event |-> event]

\* Mutant: the rate rounded to a whole percent, round(x) for round(x, 2).
drowsiness_rate_whole(drowsy, total) ==
    IF total > 0 THEN round_div(drowsy * 100, total) * 100 ELSE 0

\* round(drowsy / total * 100, 2) if total > 0 else 0
drowsiness_rate(drowsy, total) ==
    IF total > 0 THEN round_div(drowsy * 10000, total) ELSE 0

\* Mutant: the histogram pre-filled with every classifier label at 0.
get_statistics_zero_filled(cache) ==
    IF Len(cache) = 0
    THEN [total_events          |-> 0,
          drowsy_events         |-> 0,
          average_ear           |-> 0,
          average_duration      |-> 0,
          severity_distribution |-> [s \in {} |-> 0]]
    ELSE LET total  == Len(cache)
             drowsy == CountDrowsy(cache)
         IN  [total_events          |-> total,
              drowsy_events         |-> drowsy,
              average_ear           |-> round_div(SumEar(cache), total),
              average_duration_ms   |-> round_div(SumDuration(cache) * 100, total),
              severity_distribution |->
                  [s \in {"none", "low", "medium", "high"} |->
                      Cardinality({i \in 1..Len(cache) : cache[i].severity = s})],
              drowsiness_rate       |->
                  drowsiness_rate(drowsy, total)]

\* get_statistics over a cache that does not change during the call.
get_statistics(cache) ==
    IF Len(cache) = 0
    THEN [total_events          |-> 0,
          drowsy_events         |-> 0,
          average_ear           |-> 0,
          average_duration      |-> 0,
          severity_distribution |-> [s \in {} |-> 0]]
    ELSE LET total  == Len(cache)
             drowsy == CountDrowsy(cache)
             seen   == {cache[i].severity : i \in 1..Len(cache)}
         IN  [total_events          |-> total,
              drowsy_events         |-> drowsy,
              average_ear           |-> round_div(SumEar(cache), total),
              average_duration_ms   |-> round_div(SumDuration(cache) * 100, total),
              severity_distribution |->
                  [s \in seen |-> Cardinality({i \in 1..Len(cache) : cache[i].severity = s})],
              drowsiness_rate       |->
                  drowsiness_rate(drowsy, total)]

\* seq[start:] of Python, start of either sign.
py_slice_from(seq, start) ==
    LET n    == Len(seq)
        from == IF start < 0
                THEN (IF n + start < 0 THEN 0 ELSE n + start)
                ELSE (IF start > n THEN n ELSE start)
    IN  SubSeq(seq, from + 1, n)

\* self.events_cache[-limit:] if self.events_cache else []
get_recent_events(cache, limit) ==
    IF Len(cache) # 0 THEN py_slice_from(cache, 0 - limit) ELSE <<>>

\* Mutant: the count taken after the list was cleared.
clear_cache_count_after(cache) == [cache |-> <<>>, count |-> 0]

\* clear_cache run alone: the emptied cache and the count returned.
clear_cache(cache) == [cache |-> <<>>, count |-> Len(cache)]

\* --------------------------------------------------------- AnalyticsService
\* Mutant: the window closed at its lower end, >= in place of >.
later_than_inclusive(ts, one_hour_ago, z_ok) ==
    LET dt == fromisoformat(ts, z_ok)
    IN  IF dt.error # "" THEN [error |-> dt.error, value |-> FALSE]
        ELSE IF dt.aware THEN [error |-> "TypeError", value |-> FALSE]
        ELSE [error |-> "", value |-> dt.t >= one_hour_ago]

\* datetime.fromisoformat(e["timestamp"]) > one_hour_ago, one_hour_ago naive:
\* the error raised, or "" and the truth value.
later_than(ts, one_hour_ago, z_ok) ==
    LET dt == fromisoformat(ts, z_ok)
    IN  IF dt.error # "" THEN [error |-> dt.error, value |-> FALSE]
        ELSE IF dt.aware THEN [error |-> "TypeError", value |-> FALSE]
        ELSE [error |-> "", value |-> dt.t > one_hour_ago]

\* Mutant: alert_rate truncated, int() in place of round().
hourly_result_truncated(recent) ==
    IF Len(recent) = 0
    THEN [events_count |-> 0, period |-> "last_hour"]
    ELSE LET drowsy_count == CountDrowsy(recent)
         IN  [period       |-> "last_hour",
              events_count |-> Len(recent),
              drowsy_count |-> drowsy_count,
              average_ear  |-> round_div(SumEar(recent), Len(recent)),
              alert_rate   |-> (drowsy_count * 10000) \div Len(recent)]

\* The summary built from the filtered list `recent` (lines 186-198).
hourly_result(recent) ==
    IF Len(recent) = 0
    THEN [events_count |-> 0, period |-> "last_hour"]
    ELSE LET drowsy_count == CountDrowsy(recent)
         IN  [period       |-> "last_hour",
              events_count |-> Len(recent),
              drowsy_count |-> drowsy_count,
              average_ear  |-> round_div(SumEar(recent), Len(recent)),
              alert_rate   |-> IF Len(recent) # 0
                               THEN round_div(drowsy_count * 10000, Len(recent))
                               ELSE 0]

\* get_hourly_summary over a cache that does not change during the call.
get_hourly_summary(cache, clock, z_ok) ==
    LET one_hour_ago == clock - OneHour
        failing == {i \in 1..Len(cache) :
                       later_than(cache[i].timestamp, one_hour_ago, z_ok).error # ""}
        first   == CHOOSE i \in failing : \A j \in failing : i <= j
        keep(e) == later_than(e.timestamp, one_hour_ago, z_ok).value
    IN  IF failing # {}
        THEN [error |-> later_than(cache[first].timestamp, one_hour_ago, z_ok).error,
              value |-> [period |-> "last_hour"]]
        ELSE [error |-> "", value |-> hourly_result(SelectSeq(cache, keep))]

\* stats.get("drowsiness_rate", 0)
stats_rate(stats) ==
    IF "drowsiness_rate" \in DOMAIN stats THEN stats.drowsiness_rate ELSE 0

\* Mutant: the thresholds compared with >= in place of >.
get_system_status_inclusive(stats) ==
    IF stats.total_events = 0 THEN "idle"
    ELSE IF stats_rate(stats) >= CriticalRate THEN "critical"
    ELSE IF stats_rate(stats) >= WarningRate THEN "warning"
    ELSE "normal"

\* _get_system_status: idle on no events, else by the stored rate.
get_system_status(stats) ==
    IF stats.total_events = 0 THEN "idle"
    ELSE IF stats_rate(stats) > CriticalRate THEN "critical"
    ELSE IF stats_rate(stats) > WarningRate THEN "warning"
    ELSE "normal"

get_dashboard_summary(cache, clock, z_ok) ==
    LET stats  == get_statistics(cache)
        hourly == get_hourly_summary(cache, clock, z_ok)
    IN  IF hourly.error # ""
        THEN [error |-> hourly.error, value |-> [status |-> ""]]
        ELSE [error |-> "",
              value |-> [overall   |-> stats,
                         last_hour |-> hourly.value,
                         status    |-> get_system_status(stats),
                         timestamp |-> isoformat(clock)]]

\* ------------------------------------------------------------------ main.py
\* DetectionEvent.set_timestamp: v or datetime.utcnow().isoformat()
set_timestamp(v, clock) == IF v = NoTimestamp THEN isoformat(clock) ELSE v

StatisticsFields ==
    {"total_events", "drowsy_events", "average_ear", "average_duration_ms",
     "drowsiness_rate", "severity_distribution"}

\* StatisticsResponse(**stats): every declared field is required.
StatisticsResponse(stats) ==
    IF StatisticsFields \subseteq DOMAIN stats
    THEN [status_code |-> 200, body |-> [f \in StatisticsFields |-> stats[f]]]
    ELSE [status_code |-> 500, body |-> [detail |-> "ValidationError"]]

\* Mutant: the event is kept only when the sink accepted it.
log_detection_event_sink_first(cache, event, sink_ok, clock) ==
    LET r == process_detection_event(cache, event.ear_value, event.is_drowsy,
                                     event.duration_ms,
                                     set_timestamp(event.timestamp, clock), clock)
    IN  [cache     |-> IF sink_ok THEN r.cache ELSE cache,
         processed |-> r.event,
         response  |-> IF sink_ok
                       THEN [status_code |-> 200,
                             body |-> [status    |-> "logged",
                                       timestamp |-> r.event.timestamp,
                                       severity  |-> r.event.severity]]
                       ELSE [status_code |-> 500, body |-> [detail |-> "sink"]]]

\* POST /telemetry: the cache, the processed event and the response.
log_detection_event(cache, event, sink_ok, clock) ==
    LET r == process_detection_event(cache, event.ear_value, event.is_drowsy,
                                     event.duration_ms,
                                     set_timestamp(event.timestamp, clock), clock)
    IN  [cache     |-> r.cache,
         processed |-> r.event,
         response  |-> IF sink_ok
                       THEN [status_code |-> 200,
                             body |-> [status    |-> "logged",
                                       timestamp |-> r.event.timestamp,
                                       severity  |-> r.event.severity]]
                       ELSE [status_code |-> 500, body |-> [detail |-> "sink"]]]

\* POST /telemetry/batch: the events of the batch processed in order.
RECURSIVE log_batch_events(_, _, _)
log_batch_events(cache, events, clock) ==
    IF Len(events) = 0
    THEN [cache |-> cache, results |-> <<>>]
    ELSE LET e    == Head(events)
             r    == process_detection_event(cache, e.ear_value, e.is_drowsy,
                                             e.duration_ms,
                                             set_timestamp(e.timestamp, clock), clock)
             rest == log_batch_events(r.cache, Tail(events), clock)
         IN  [cache |-> rest.cache, results |-> <<r.event>> \o rest.results]

\* ------------------------------------------------------------------ inputs
\* Request bodies the boundary accepts (0 <= ear_value <= 1, duration_ms >= 0).
InputEvents ==
    { [ear_value |-> 300, is_drowsy |-> FALSE, duration_ms |-> 100,
       timestamp |-> NoTimestamp],
      [ear_value |-> 100, is_drowsy |-> TRUE, duration_ms |-> 1500,
       timestamp |-> NoTimestamp],
      [ear_value |-> 100, is_drowsy |-> TRUE, duration_ms |-> 6000,
       timestamp |-> isoformat(0)],
      [ear_value |-> 150, is_drowsy |-> TRUE, duration_ms |-> 3500,
       timestamp |-> [fmt |-> "zulu", t |-> 0]],
      [ear_value |-> 250, is_drowsy |-> FALSE, duration_ms |-> 2000,
       timestamp |-> [fmt |-> "offset", t |-> 0]] }

\* The two of them that carry no timestamp.
FillEvents == {e \in InputEvents : e.timestamp = NoTimestamp /\ e.duration_ms < LowDuration}

\* BatchDetectionRequest: at least one event.
Batches(Events) == UNION {[1..n -> Events] : n \in 1..MaxBatch}

Limits == (0 - 1)..MaxLimit

\* A cache that n earlier requests without timestamp, made at hour 0, filled.
Prefill(n) ==
    [i \in 1..n |->
        IF i % 2 = 1
        THEN make_event(100, TRUE, 1500, NoTimestamp, 0)
        ELSE make_event(300, FALSE, 100, NoTimestamp, 0)]

NoEvent == [timestamp |-> NoTimestamp, severity |-> ""]
NoResponse == [status_code |-> 0, body |-> [detail |-> ""]]

\* Requests in flight at once (the server runs each handler on a pool thread).
Threads == 1..NThreads

\* A thread that has taken no request yet.
Idle ==
    [pc |-> "idle", op |-> "", error |-> "",
     event |-> NoEvent, oldest |-> NoEvent, evicted |-> NoEvent, interfered |-> FALSE,
     count |-> 0, total |-> 0, drowsy |-> 0, sum_ear |-> 0, sum_duration |-> 0,
     stats |-> [total_events |-> 0], result |-> [total_events |-> 0],
     snapshots |-> {}]

\* ------------------------------------------------- requests, one at a time
Init ==
    /\ events_cache = <<>>
    /\ history = events_cache
    /\ now = 0
    /\ accepts_z \in BOOLEAN
    /\ nrecords = 0
    /\ request = [op |-> "start"]
    /\ processed = NoEvent
    /\ response = NoResponse
    /\ threads = [t \in Threads |-> Idle]
    /\ nrequests = 0

Tick ==
    /\ now < MaxClock
    /\ now' = now + 1
    /\ UNCHANGED <<events_cache, accepts_z, history, nrecords, request, processed, response, threads, nrequests>>

Telemetry(Events) ==
    \E event \in Events, sink_ok \in BOOLEAN :
        LET r == log_detection_event(events_cache, event, sink_ok, now)
        IN  /\ nrecords < MaxRecords
            /\ events_cache' = r.cache
            /\ processed' = r.processed
            /\ response' = r.response
            /\ history' = Append(history, r.processed)
            /\ nrecords' = nrecords + 1
            /\ request' = [op |-> "telemetry", event |-> event, sink_ok |-> sink_ok,
                            at |-> now]
            /\ UNCHANGED <<now, accepts_z, threads, nrequests>>

TelemetryBatch(Events) ==
    \E batch \in Batches(Events) :
        LET r == log_batch_events(events_cache, batch, now)
        IN  /\ nrecords + Len(batch) <= MaxRecords
            /\ events_cache' = r.cache
            /\ processed' = r.results[Len(r.results)]
            /\ response' = [status_code |-> 200,
                            body |-> [status |-> "success",
                                      events_logged |-> Len(r.results)]]
            /\ history' = history \o r.results
            /\ nrecords' = nrecords + Len(batch)
            /\ request' = [op |-> "batch", events |-> batch]
            /\ UNCHANGED <<now, accepts_z, threads, nrequests>>

Statistics ==
    /\ response' = StatisticsResponse(get_statistics(events_cache))
    /\ request' = [op |-> "statistics"]
    /\ UNCHANGED <<events_cache, now, accepts_z, history, nrecords, processed, threads, nrequests>>

Dashboard ==
    LET r == get_dashboard_summary(events_cache, now, accepts_z)
    IN  /\ response' = IF r.error = ""
                       THEN [status_code |-> 200, body |-> r.value]
                       ELSE [status_code |-> 500, body |-> [detail |-> r.error]]
        /\ request' = [op |-> "dashboard", at |-> now]
        /\ UNCHANGED <<events_cache, now, accepts_z, history, nrecords, processed, threads, nrequests>>

RecentEvents ==
    \E limit \in Limits :
        LET events == get_recent_events(events_cache, limit)
        IN  /\ response' = [status_code |-> 200,
                            body |-> [events |-> events, count |-> Len(events)]]
            /\ request' = [op |-> "recent", limit |-> limit]
            /\ UNCHANGED <<events_cache, now, accepts_z, history, nrecords, processed, threads, nrequests>>

ClearCache ==
    LET r == clear_cache(events_cache)
    IN  /\ events_cache' = r.cache
        /\ response' = [status_code |-> 200,
                        body |-> [status |-> "cleared", events_cleared |-> r.count]]
        /\ history' = <<>>
        /\ request' = [op |-> "clear", held |-> Len(events_cache),
                        previous |-> request.op]
        /\ UNCHANGED <<now, accepts_z, nrecords, processed, threads, nrequests>>

Next ==
    \/ Tick
    \/ Telemetry(InputEvents)
    \/ TelemetryBatch(InputEvents)
    \/ Statistics
    \/ Dashboard
    \/ RecentEvents
    \/ ClearCache

Spec == Init /\ [][Next]_vars

\* The same handlers on a cache one event short of its capacity, which
\* max_cache_size - 1 earlier requests filled.
InitFull ==
    /\ events_cache = Prefill(max_cache_size - 1)
    /\ history = events_cache
    /\ now = 0
    /\ accepts_z \in BOOLEAN
    /\ nrecords = 0
    /\ request = [op |-> "start"]
    /\ processed = NoEvent
    /\ response = NoResponse
    /\ threads = [t \in Threads |-> Idle]
    /\ nrequests = 0

NextFull ==
    \/ Telemetry(FillEvents)
    \/ TelemetryBatch(FillEvents)
    \/ Statistics
    \/ Dashboard
    \/ RecentEvents
    \/ ClearCache

SpecFull == InitFull /\ [][NextFull]_vars

\* _calculate_severity on its own, over inputs around its thresholds.
Ears == {0, 100, 249, 250, 251, 300, 1000}
Durations == {0, 100, 1999, 2000, 2001, 3500, 4999, 5000, 5001, 6000}

InitClassify ==
    /\ events_cache = <<>>
    /\ history = <<>>
    /\ now = 0
    /\ accepts_z = TRUE
    /\ nrecords = 0
    /\ request \in {[op |-> "classify", ear_value |-> e, duration_ms |-> d] :
                      e \in Ears, d \in Durations}
    /\ processed = NoEvent
    /\ response = NoResponse
    /\ threads = [t \in Threads |-> Idle]
    /\ nrequests = 0

Classify ==
    /\ response = NoResponse
    /\ response' = [status_code |-> 0,
                    body |-> [severity |->
                                calculate_severity(request.ear_value, request.duration_ms)]]
    /\ UNCHANGED <<events_cache, now, accepts_z, history, nrecords, request, processed, threads, nrequests>>

SpecClassify == InitClassify /\ [][Classify]_vars

\* _get_system_status on the statistics of every cache size the service can
\* hold: a cache enters only through its length and its number of drowsy
\* events, so the inputs are all pairs 0 <= drowsy <= total <= max_cache_size.
InitStatus ==
    /\ events_cache = <<>>
    /\ history = <<>>
    /\ now = 0
    /\ accepts_z = TRUE
    /\ nrecords = 0
    /\ \E t \in 1..max_cache_size : \E d \in 0..t :
           request = [op |-> "status", total_events |-> t, drowsy_events |-> d]
    /\ processed = NoEvent
    /\ response = NoResponse
    /\ threads = [t \in Threads |-> Idle]
    /\ nrequests = 0

Status ==
    LET rate  == drowsiness_rate(request.drowsy_events, request.total_events)
        stats == [total_events    |-> request.total_events,
                  drowsy_events   |-> request.drowsy_events,
                  drowsiness_rate |-> rate]
    IN  /\ response = NoResponse
        /\ response' = [status_code |-> 0,
                        body |-> [drowsiness_rate |-> rate,
                                  status |-> get_system_status(stats)]]
        /\ UNCHANGED <<events_cache, now, accepts_z, history, nrecords, request, processed, threads, nrequests>>

SpecStatus == InitStatus /\ [][Status]_vars

\* ------------------------------------------------- requests run concurrently
\* The handlers are plain `def` functions, which the server runs on pool
\* threads; no lock guards events_cache.  One step here is one operation on
\* the list that the interpreter runs without switching threads: append, len,
\* the truth test, pop(0), clear.  A traversal of the list (a sum, the severity
\* loop, the hourly filter) is taken as one step as well; the interpreter can
\* switch threads inside a traversal too, so the code has every interleaving
\* below and more.
seqvars == <<history, nrecords, request, processed, response>>
sharedvars == <<events_cache, now, accepts_z, seqvars>>

\* What a read request returns on `cache`, read whole at one instant.
SnapshotOf(op, cache, clock, z_ok) ==
    IF op = "statistics"
    THEN [error |-> "", value |-> get_statistics(cache)]
    ELSE get_dashboard_summary(cache, clock, z_ok)

Reading(th) == th.op \in {"statistics", "dashboard"} /\ th.pc \notin {"idle", "done"}

\* Ghost bookkeeping of a mutation by thread `self` that leaves `cache`: every
\* read in flight gains the snapshot of that instant, and every other record
\* call between its append and its eviction is marked as interfered with.
Observed(self, cache) ==
    [t \in Threads |->
        IF t = self THEN threads[t]
        ELSE IF Reading(threads[t])
        THEN [threads[t] EXCEPT
                !.snapshots = @ \cup {SnapshotOf(threads[t].op, cache, now, accepts_z)}]
        ELSE IF threads[t].pc \in {"check", "pop"}
        THEN [threads[t] EXCEPT !.interfered = TRUE]
        ELSE threads[t]]

\* A pool thread takes a request when it has none; a thread that has served
\* none yet is used only after the ones before it.
CanStart(t) ==
    /\ nrequests < MaxRequests
    /\ threads[t].pc \in {"idle", "done"}
    /\ \A u \in Threads : u < t => threads[u].pc # "idle"

\* process_detection_event, lines 99-108: the event dict is built.
StartRecord(t) ==
    \E e \in FillEvents :
        /\ CanStart(t)
        /\ threads' = [threads EXCEPT ![t] =
              [Idle EXCEPT !.pc = "append", !.op = "record",
                        !.event = make_event(e.ear_value, e.is_drowsy, e.duration_ms,
                                             set_timestamp(e.timestamp, now), now)]]
        /\ nrequests' = nrequests + 1
        /\ UNCHANGED sharedvars

\* line 111: self.events_cache.append(event)
RecordAppend(t) ==
    /\ threads[t].pc = "append"
    /\ events_cache' = Append(events_cache, threads[t].event)
    /\ threads' = [Observed(t, events_cache') EXCEPT ![t] =
          [@ EXCEPT !.pc = "check", !.oldest = events_cache'[1]]]
    /\ UNCHANGED <<now, accepts_z, seqvars, nrequests>>

\* line 112: if len(self.events_cache) > self.max_cache_size
RecordCheck(t) ==
    /\ threads[t].pc = "check"
    /\ threads' = [threads EXCEPT ![t] =
          [@ EXCEPT !.pc = IF Len(events_cache) > max_cache_size THEN "pop" ELSE "done"]]
    /\ UNCHANGED <<sharedvars, nrequests>>

\* line 113: self.events_cache.pop(0); IndexError on an empty list
RecordPop(t) ==
    /\ threads[t].pc = "pop"
    /\ IF Len(events_cache) = 0
       THEN /\ threads' = [threads EXCEPT ![t] =
                  [@ EXCEPT !.pc = "done", !.error = "IndexError"]]
            /\ UNCHANGED events_cache
       ELSE /\ events_cache' = Tail(events_cache)
            /\ threads' = [Observed(t, events_cache') EXCEPT ![t] =
                  [@ EXCEPT !.pc = "done", !.evicted = events_cache[1]]]
    /\ UNCHANGED <<now, accepts_z, seqvars, nrequests>>

StartClear(t) ==
    /\ CanStart(t)
    /\ threads' = [threads EXCEPT ![t] = [Idle EXCEPT !.pc = "clear_len", !.op = "clear"]]
    /\ nrequests' = nrequests + 1
    /\ UNCHANGED sharedvars

\* line 164: count = len(self.events_cache)
ClearLen(t) ==
    /\ threads[t].pc = "clear_len"
    /\ threads' = [threads EXCEPT ![t] =
          [@ EXCEPT !.pc = "clear", !.count = Len(events_cache)]]
    /\ UNCHANGED <<sharedvars, nrequests>>

\* line 165: self.events_cache.clear()
ClearClear(t) ==
    /\ threads[t].pc = "clear"
    /\ events_cache' = <<>>
    /\ threads' = [Observed(t, events_cache') EXCEPT ![t] = [@ EXCEPT !.pc = "done"]]
    /\ UNCHANGED <<now, accepts_z, seqvars, nrequests>>

\* GET /statistics and GET /dashboard both begin with get_statistics.
StartRead(t) ==
    \E op \in {"statistics", "dashboard"} :
        /\ CanStart(t)
        /\ threads' = [threads EXCEPT ![t] =
              [Idle EXCEPT !.pc = "stats_empty", !.op = op,
                           !.snapshots = {SnapshotOf(op, events_cache, now, accepts_z)}]]
        /\ nrequests' = nrequests + 1
        /\ UNCHANGED sharedvars

\* Where get_statistics returns to: its caller is done, or goes on to
\* get_hourly_summary.
AfterStatistics(th, stats) ==
    IF th.op = "statistics"
    THEN [th EXCEPT !.pc = "done", !.result = [error |-> "", value |-> stats]]
    ELSE [th EXCEPT !.pc = "hourly", !.stats = stats]

\* line 130: if not self.events_cache: return {...}
StatsEmpty(t) ==
    /\ threads[t].pc = "stats_empty"
    /\ threads' = [threads EXCEPT ![t] =
          IF Len(events_cache) = 0
          THEN AfterStatistics(@, get_statistics(<<>>))
          ELSE [@ EXCEPT !.pc = "stats_total"]]
    /\ UNCHANGED <<sharedvars, nrequests>>

\* line 139: total = len(self.events_cache)
StatsTotal(t) ==
    /\ threads[t].pc = "stats_total"
    /\ threads' = [threads EXCEPT ![t] =
          [@ EXCEPT !.pc = "stats_drowsy", !.total = Len(events_cache)]]
    /\ UNCHANGED <<sharedvars, nrequests>>

\* line 140: drowsy = sum(1 for e in self.events_cache if e["is_drowsy"])
StatsDrowsy(t) ==
    /\ threads[t].pc = "stats_drowsy"
    /\ threads' = [threads EXCEPT ![t] =
          [@ EXCEPT !.pc = "stats_ear", !.drowsy = CountDrowsy(events_cache)]]
    /\ UNCHANGED <<sharedvars, nrequests>>

\* line 141: avg_ear = sum(...) / total; ZeroDivisionError when total is 0
StatsEar(t) ==
    /\ threads[t].pc = "stats_ear"
    /\ threads' = [threads EXCEPT ![t] =
          IF threads[t].total = 0
          THEN [@ EXCEPT !.pc = "done", !.error = "ZeroDivisionError",
                         !.result = [error |-> "ZeroDivisionError",
                                     value |-> [total_events |-> 0]]]
          ELSE [@ EXCEPT !.pc = "stats_duration", !.sum_ear = SumEar(events_cache)]]
    /\ UNCHANGED <<sharedvars, nrequests>>

\* line 142: avg_duration = sum(...) / total
StatsDuration(t) ==
    /\ threads[t].pc = "stats_duration"
    /\ threads' = [threads EXCEPT ![t] =
          [@ EXCEPT !.pc = "stats_severity", !.sum_duration = SumDuration(events_cache)]]
    /\ UNCHANGED <<sharedvars, nrequests>>

\* lines 144-156: the severity loop, then the dict is built from the locals.
StatsSeverity(t) ==
    /\ threads[t].pc = "stats_severity"
    /\ LET th    == threads[t]
           seen  == {events_cache[i].severity : i \in 1..Len(events_cache)}
           stats == [total_events          |-> th.total,
                     drowsy_events         |-> th.drowsy,
                     average_ear           |-> round_div(th.sum_ear, th.total),
                     average_duration_ms   |-> round_div(th.sum_duration * 100, th.total),
                     severity_distribution |->
                         [s \in seen |-> Cardinality({i \in 1..Len(events_cache) :
                                                         events_cache[i].severity = s})],
                     drowsiness_rate       |->
                         IF th.total > 0 THEN round_div(th.drowsy * 10000, th.total) ELSE 0]
       IN  threads' = [threads EXCEPT ![t] = AfterStatistics(@, stats)]
    /\ UNCHANGED <<sharedvars, nrequests>>

\* get_hourly_summary, lines 177-198: the filter reads the shared list; the
\* rest works on the filtered copy.  Then lines 205-210 build the summary.
DashboardHourly(t) ==
    /\ threads[t].pc = "hourly"
    /\ LET th     == threads[t]
           hourly == get_hourly_summary(events_cache, now, accepts_z)
       IN  threads' = [threads EXCEPT ![t] =
              [@ EXCEPT !.pc = "done",
                        !.error = hourly.error,
                        !.result =
                            IF hourly.error # ""
                            THEN [error |-> hourly.error, value |-> [status |-> ""]]
                            ELSE [error |-> "",
                                  value |-> [overall   |-> th.stats,
                                             last_hour |-> hourly.value,
                                             status    |-> get_system_status(th.stats),
                                             timestamp |-> isoformat(now)]]]]
    /\ UNCHANGED <<sharedvars, nrequests>>

InitConc ==
    /\ events_cache \in {<<>>, Prefill(1), Prefill(max_cache_size)}
    /\ history = events_cache
    /\ now = 0
    /\ accepts_z = TRUE
    /\ nrecords = 0
    /\ request = [op |-> "start"]
    /\ processed = NoEvent
    /\ response = NoResponse
    /\ threads = [t \in Threads |-> Idle]
    /\ nrequests = 0

NextConc ==
    \E t \in Threads :
        \/ StartRecord(t)
        \/ RecordAppend(t)
        \/ RecordCheck(t)
        \/ RecordPop(t)
        \/ StartClear(t)
        \/ ClearLen(t)
        \/ ClearClear(t)
        \/ StartRead(t)
        \/ StatsEmpty(t)
        \/ StatsTotal(t)
        \/ StatsDrowsy(t)
        \/ StatsEar(t)
        \/ StatsDuration(t)
        \/ StatsSeverity(t)
        \/ DashboardHourly(t)

SpecConc == InitConc /\ [][NextConc]_vars

\* ------------------------------------------------------------------ claims
Min(a, b) == IF a < b THEN a ELSE b

\* The last n elements of seq.
LastN(seq, n) == SubSeq(seq, Len(seq) - n + 1, Len(seq))

\* C1: after any sequence of record calls made one at a time the cache holds
\* at most 1000 events, and they are the most recently recorded ones, in
\* arrival order: once more than 1000 were recorded, exactly the last 1000.
C1_CacheIsRecentTail ==
    /\ Len(events_cache) <= 1000
    /\ Len(events_cache) = Min(Len(history), 1000)
    /\ events_cache = LastN(history, Min(Len(history), 1000))

C1_Witness ==
    /\ request.op \in {"telemetry", "batch"}
    /\ Len(history) > 1000
    /\ Len(events_cache) = 1000
    /\ events_cache[1] = history[Len(history) - 999]

\* C2: under every interleaving of concurrent record and clear requests a
\* record's append-then-maybe-evict is atomic: no other append, pop or clear
\* takes effect between its append and its eviction, so the call completes
\* without error and the event it evicts, if any, is the one that was oldest
\* when it appended.
C2_RecordIsAtomic ==
    \A t \in Threads :
        (threads[t].op = "record" /\ threads[t].pc = "done") =>
            /\ threads[t].error = ""
            /\ threads[t].evicted # NoEvent =>
                   /\ ~threads[t].interfered
                   /\ threads[t].evicted = threads[t].oldest

\* C3: in every reachable state, the states inside a record call that other
\* requests can observe included, the cache holds at most 1000 events.
C3_LengthWithinCapacity == Len(events_cache) <= 1000

\* C4: every result of get_statistics or get_dashboard that runs concurrently
\* with record and clear requests is what the operation returns on the cache
\* as it was at one instant during the call; it never fails with a division
\* by zero, never reports more drowsy events than events, and the dashboard's
\* last-hour count never exceeds its overall total.
C4_ReadsSeeOneInstant ==
    \A t \in Threads :
        (threads[t].op \in {"statistics", "dashboard"} /\ threads[t].pc = "done") =>
            LET r == threads[t].result
            IN  /\ r \in threads[t].snapshots
                /\ r.error = ""
                /\ threads[t].op = "statistics" =>
                       r.value.drowsy_events <= r.value.total_events
                /\ threads[t].op = "dashboard" =>
                       r.value.last_hour.events_count <= r.value.overall.total_events

\* C5: for limit >= 0, get_recent_events returns exactly the last
\* min(limit, |cache|) cached events in arrival order; nothing when limit is 0.
C5_RecentIsTail ==
    (request.op = "recent" /\ request.limit >= 0) =>
        /\ response.body.events = LastN(events_cache, Min(request.limit, Len(events_cache)))
        /\ response.body.count <= request.limit

\* C6: clear_cache returns the number of events held just before the call and
\* leaves the cache empty; called again at once it returns 0.
C6_ClearReturnsCount ==
    request.op = "clear" =>
        /\ response.status_code = 200
        /\ response.body.events_cleared = request.held
        /\ events_cache = <<>>
        /\ (request.previous = "clear" => response.body.events_cleared = 0)

C6_Witness ==
    /\ request.op = "clear"
    /\ request.held = 1000
    /\ response.body.events_cleared = 1000
    /\ events_cache = <<>>

\* C7: on an empty cache the statistics request succeeds with total_events=0,
\* drowsy_events=0, average_ear=0.0, average_duration_ms=0.0, drowsiness_rate=0
\* and severity_distribution={}.
C7_EmptyStatistics ==
    (request.op = "statistics" /\ events_cache = <<>>) =>
        /\ response.status_code = 200
        /\ response.body = [total_events          |-> 0,
                            drowsy_events         |-> 0,
                            average_ear           |-> 0,
                            average_duration_ms   |-> 0,
                            drowsiness_rate       |-> 0,
                            severity_distribution |-> <<>>]

\* C8: whatever ISO-8601 timestamps the recorded events carry, the dashboard
\* request raises no error and returns overall, last_hour, status and timestamp.
C8_DashboardNeverFails ==
    request.op = "dashboard" =>
        /\ response.status_code = 200
        /\ {"overall", "last_hour", "status", "timestamp"} \subseteq DOMAIN response.body

\* C9: whether the sink fails or not, a telemetry request leaves the event
\* with its computed severity appended to the cache (at most the oldest entry
\* evicted), and process_detection_event returns that same event.
C9_SinkIsolated ==
    request.op = "telemetry" =>
        LET e  == request.event
            ev == [timestamp   |-> IF e.timestamp = NoTimestamp
                                   THEN [fmt |-> "naive", t |-> request.at]
                                   ELSE e.timestamp,
                   ear_value   |-> e.ear_value,
                   is_drowsy   |-> e.is_drowsy,
                   duration_ms |-> e.duration_ms,
                   severity    |-> calculate_severity(e.ear_value, e.duration_ms)]
        IN  /\ processed = ev
            /\ Len(events_cache) = Min(Len(history), 1000)
            /\ events_cache = LastN(history, Len(events_cache))
            /\ events_cache[Len(events_cache)] = ev

C9_Witness ==
    /\ request.op = "telemetry"
    /\ ~request.sink_ok
    /\ response.status_code = 500
    /\ Len(history) > 1000
    /\ events_cache[1000] = processed

\* C10: _calculate_severity gives none whenever ear_value > 0.25; otherwise
\* low iff duration_ms < 2000, medium iff 2000 <= duration_ms < 5000 and high
\* iff duration_ms >= 5000.
C10_SeverityThresholds ==
    (request.op = "classify" /\ response # NoResponse) =>
        LET ear == request.ear_value
            d   == request.duration_ms
            sev == response.body.severity
        IN  /\ ear > 250 => sev = "none"
            /\ ear <= 250 =>
                /\ sev = "low" <=> d < 2000
                /\ sev = "medium" <=> (2000 <= d /\ d < 5000)
                /\ sev = "high" <=> d >= 5000

C10_Witness ==
    /\ request.op = "classify"
    /\ request.ear_value = 250
    /\ request.duration_ms = 5000
    /\ response # NoResponse
    /\ response.body.severity = "high"

\* C11: every cached event carries the severity that classifying its own
\* ear_value and duration_ms gives, that severity is one of none, low, medium,
\* high (never critical), and no later record, read or dashboard request
\* changes a field of an event already cached: the cache is, field for field,
\* a run of the events as process_detection_event created them.
C11_SeverityStoredOnce ==
    /\ \A i \in 1..Len(events_cache) :
           LET e == events_cache[i]
           IN  /\ e.severity \in {"none", "low", "medium", "high"}
               /\ e.severity = "none" <=> e.ear_value > 250
               /\ e.severity = "low" <=> (e.ear_value <= 250 /\ e.duration_ms < 2000)
               /\ e.severity = "medium" <=>
                      (e.ear_value <= 250 /\ 2000 <= e.duration_ms /\ e.duration_ms < 5000)
               /\ e.severity = "high" <=> (e.ear_value <= 250 /\ e.duration_ms >= 5000)
    /\ Len(events_cache) <= Len(history)
    /\ \A i \in 1..Len(events_cache) :
           events_cache[i] = history[Len(history) - Len(events_cache) + i]

C11_Witness ==
    /\ request.op \in {"statistics", "dashboard", "recent"}
    /\ Len(events_cache) = 3
    /\ events_cache[1].severity = "high"
    /\ events_cache[2].severity = "medium"
    /\ events_cache[3].severity = "none"

\* C12: the dashboard status is idle when the cache is empty; for a non-empty
\* cache it is critical when the drowsiness_rate of the full cache exceeds 50,
\* warning when that rate is greater than 25 and at most 50, normal otherwise.
C12_DashboardStatus ==
    LET stats    == get_statistics(events_cache)
        expected == IF events_cache = <<>> THEN "idle"
                    ELSE IF stats.drowsiness_rate > 5000 THEN "critical"
                    ELSE IF stats.drowsiness_rate > 2500 THEN "warning"
                    ELSE "normal"
    IN  /\ get_system_status(stats) = expected
        /\ (request.op = "dashboard" /\ response.status_code = 200) =>
               /\ response.body.overall = stats
               /\ response.body.status = expected

C12_Witness ==
    /\ request.op = "dashboard"
    /\ response.status_code = 200
    /\ Len(events_cache) = 2
    /\ response.body.overall.drowsiness_rate = 5000
    /\ response.body.status = "warning"

\* C13: the hourly summary counts exactly the cached events whose timestamp
\* is strictly later than now minus one hour, an event exactly one hour old
\* being excluded, and when no cached event qualifies it is exactly
\* {events_count: 0, period: "last_hour"} with no other keys.
C13_HourlyWindow ==
    (request.op = "dashboard" /\ response.status_code = 200) =>
        LET in_window == {i \in 1..Len(events_cache) :
                             events_cache[i].timestamp.t > request.at - 1}
        IN  /\ response.body.last_hour.events_count = Cardinality(in_window)
            /\ in_window = {} =>
                   response.body.last_hour = [events_count |-> 0, period |-> "last_hour"]

C13_Witness ==
    /\ request.op = "dashboard"
    /\ response.status_code = 200
    /\ request.at = 1
    /\ Len(events_cache) = 2
    /\ events_cache[1].timestamp.t = 0
    /\ events_cache[2].timestamp.t = 1
    /\ response.body.last_hour.events_count = 1

\* C14 as stated: with at least one cached event in the trailing hour, the
\* hourly summary has the fields of the statistics snapshot computed over the
\* in-window events (total_events, drowsy_events, average_ear,
\* average_duration_ms, drowsiness_rate, severity_distribution) plus an
\* alert_rate equal to that snapshot's drowsiness_rate.
C14_HourlyHasStatisticsShape ==
    LET keep(e)  == e.timestamp.t > request.at - 1
        snapshot == get_statistics(SelectSeq(events_cache, keep))
        hourly   == response.body.last_hour
    IN  (/\ request.op = "dashboard"
         /\ response.status_code = 200
         /\ snapshot.total_events > 0) =>
            /\ (DOMAIN snapshot \cup {"alert_rate"}) \subseteq DOMAIN hourly
            /\ \A f \in DOMAIN snapshot : hourly[f] = snapshot[f]
            /\ hourly.alert_rate = snapshot.drowsiness_rate

\* C14 amended: with at least one cached event in the trailing hour, the
\* hourly summary has exactly the keys period, events_count, drowsy_count,
\* average_ear and alert_rate; their values are "last_hour" and the
\* total_events, drowsy_events, average_ear and drowsiness_rate of the
\* statistics snapshot computed over the in-window events.
C14_HourlySummaryFields ==
    LET keep(e)  == e.timestamp.t > request.at - 1
        snapshot == get_statistics(SelectSeq(events_cache, keep))
    IN  (/\ request.op = "dashboard"
         /\ response.status_code = 200
         /\ snapshot.total_events > 0) =>
            response.body.last_hour =
                [period       |-> "last_hour",
                 events_count |-> snapshot.total_events,
                 drowsy_count |-> snapshot.drowsy_events,
                 average_ear  |-> snapshot.average_ear,
                 alert_rate   |-> snapshot.drowsiness_rate]

C14_Witness ==
    /\ request.op = "dashboard"
    /\ response.status_code = 200
    /\ Len(events_cache) = 3
    /\ response.body.last_hour.events_count = 3
    /\ response.body.last_hour.drowsy_count = 2
    /\ response.body.last_hour.average_ear = 167
    /\ response.body.last_hour.alert_rate = 6667

\* C15: on every non-empty cache reached by records and clears, get_statistics
\* returns total_events = number of cached events, drowsy_events = number of
\* cached events with is_drowsy true, and a severity_distribution holding each
\* label that occurs in the cache with its exact count and no label that does
\* not occur, so the counts sum to total_events.
C15_StatisticsCounts ==
    (request.op = "statistics" /\ events_cache # <<>>) =>
        LET idx      == 1..Len(events_cache)
            dist     == response.body.severity_distribution
            n(label) == Cardinality({i \in idx : events_cache[i].severity = label})
        IN  /\ response.status_code = 200
            /\ response.body.total_events = Len(events_cache)
            /\ response.body.drowsy_events =
                   Cardinality({i \in idx : events_cache[i].is_drowsy})
            /\ DOMAIN dist = {events_cache[i].severity : i \in idx}
            /\ \A label \in DOMAIN dist : dist[label] = n(label) /\ dist[label] > 0

\* After (0.3, false, 100), (0.1, true, 1500), (0.1, true, 6000).
C15_Witness ==
    /\ request.op = "statistics"
    /\ Len(events_cache) = 3
    /\ \A i \in 1..3 : events_cache[i].ear_value = <<300, 100, 100>>[i]
    /\ \A i \in 1..3 : events_cache[i].duration_ms = <<100, 1500, 6000>>[i]
    /\ \A i \in 1..3 : events_cache[i].severity = <<"none", "low", "high">>[i]
    /\ response.body.total_events = 3
    /\ response.body.drowsy_events = 2
    /\ response.body.drowsiness_rate = 6667
    /\ response.body.severity_distribution = [s \in {"none", "low", "high"} |-> 1]

\* C16: for every non-empty cache of at most 1000 events, rounding the
\* drowsiness_rate to two decimals before comparing it with the thresholds
\* leaves the status what the exact ratio gives: critical iff
\* 2*drowsy_events > total_events, warning iff 4*drowsy_events > total_events
\* and 2*drowsy_events <= total_events, normal iff 4*drowsy_events <=
\* total_events.
C16_RoundingKeepsStatus ==
    (request.op = "status" /\ response # NoResponse) =>
        LET drowsy == request.drowsy_events
            total  == request.total_events
            status == response.body.status
        IN  /\ status = "critical" <=> 2 * drowsy > total
            /\ status = "warning" <=> (4 * drowsy > total /\ 2 * drowsy <= total)
            /\ status = "normal" <=> 4 * drowsy <= total

C16_Witness ==
    /\ request.op = "status"
    /\ request.total_events = 999
    /\ request.drowsy_events = 500
    /\ response # NoResponse
    /\ response.body.drowsiness_rate = 5005
    /\ response.body.status = "critical"

====
